---- MODULE Spec2Model ----
(***************************************************************************)
(* Model of the compact particle records of PEC-tuples.                    *)
(*                                                                         *)
(* pec::GenParticle (interface/GenParticle.h, src/GenParticle.cc) is a     *)
(* value object: a Candidate four-momentum, a one-byte PDG ID (Char_t) and *)
(* two one-byte mother indices (UChar_t) stored with an offset of one.     *)
(* The state is the set of live GenParticle objects with their fields,     *)
(* and a record of the last member function called and how it ended.       *)
(* pec::Lepton (interface/Lepton.h) is one more record, lep, and the       *)
(* plugin LHEEventWeights (plugins/LHEEventWeights.cc) is the state lhe of *)
(* its weight tables.                                                      *)
(*                                                                         *)
(* Char_t is ROOT's "signed character, 1 byte" and UChar_t its unsigned    *)
(* counterpart; a value assigned to either is reduced modulo 2^8, as the   *)
(* two's-complement builds of the package do.  Floats are modelled by      *)
(* integer labels counting halves (25 stands for 12.5): the four-momentum  *)
(* is stored verbatim, so only the identity of a value matters.            *)
(***************************************************************************)
EXTENDS Integers, FiniteSets, TLC

VARIABLES gp, call, lep, lhe

vars == <<gp, call, lep, lhe>>

(***************************************************************************)
(* Program constants                                                       *)
(***************************************************************************)

\* Number of values of a one-byte field (Char_t, UChar_t), GenParticle.h
\* lines 79 and 91.
ByteRange == 256

\* Threshold of the PDG-ID fold, GenParticle.cc line 43.
PdgIdFoldLimit == 30000

\* Divisor of the PDG-ID fold, GenParticle.cc line 46.
PdgIdFoldDivisor == 1000

(***************************************************************************)
(* Bounds of the model                                                     *)
(***************************************************************************)

\* SpecCall passes every PDG ID in -MaxPdgIdArg .. MaxPdgIdArg.
MaxPdgIdArg == 31100

\* SpecCall passes every mother index up to MaxIndexArg.
MaxIndexArg == 520

\* Illegal mother indices passed are -2 .. -(1 + MaxIllegalDepth).
MaxIllegalDepth == 2

(***************************************************************************)
(* Integer conversions and arithmetic of the C++ code                      *)
(***************************************************************************)

\* std::abs on long.
Abs(x) == IF x < 0 THEN -x ELSE x

\* The C++ operator %: the quotient truncates towards zero, so the
\* remainder takes the sign of the dividend.
CRem(a, b) == IF a >= 0 THEN a % b ELSE -((-a) % b)

\* Conversion of an integer to Char_t: the value modulo 2^8 in [-128, 127].
ToChar(x) == ((x + ByteRange \div 2) % ByteRange) - ByteRange \div 2

\* Variant of the conversion for a field wide enough for any index.
ToUChar_Wide(x) == x

\* Conversion of an integer to UChar_t: the value modulo 2^8 in [0, 255].
ToUChar(x) == x % ByteRange

(***************************************************************************)
(* Objects and inputs                                                      *)
(***************************************************************************)

\* The GenParticle objects a run may hold.
Objects == {"a", "b"}

\* Float arguments of the Candidate setters (25 stands for 12.5).
FloatArgs == {25}

\* PDG IDs passed in Spec: the pion of the end-to-end scenario.
PdgIdArgs == {-211}

\* Mother indices passed in Spec: illegal ones, the sentinel and index 0.
IndexArgs == (-(1 + MaxIllegalDepth)) .. 0

\* PDG IDs and mother indices passed in SpecCall: whole ranges.
WidePdgIdArgs == (-MaxPdgIdArg) .. MaxPdgIdArg

WideIndexArgs == (-(1 + MaxIllegalDepth)) .. MaxIndexArg

(***************************************************************************)
(* Candidate: the four-momentum base class                                 *)
(***************************************************************************)

\* Candidate(): the zero four-vector.
Candidate == [pt |-> 0, eta |-> 0, phi |-> 0, mass |-> 0]

\* Candidate::Reset() on the record p: pt, eta, phi and mass become 0.
CandidateReset(p) == [p EXCEPT !.pt = 0, !.eta = 0, !.phi = 0, !.mass = 0]

\* Candidate(src) and Candidate::operator=(src) on the record p: a value
\* copy of the four fields.
CandidateCopy(p, src) ==
    [p EXCEPT !.pt = src.pt, !.eta = src.eta, !.phi = src.phi, !.mass = src.mass]

\* The four-momentum read through Pt(), Eta(), Phi(), Mass().
P4(p) == <<p.pt, p.eta, p.phi, p.mass>>

(***************************************************************************)
(* Lepton and LHEEventWeights: the state after construction                *)
(***************************************************************************)

\* Lepton(): a zero four-momentum, no ID bit set, charge flag false
\* (positive), relIso and dB zero.
DefaultLepton ==
    [pt |-> Candidate.pt, eta |-> Candidate.eta, phi |-> Candidate.phi,
     mass |-> Candidate.mass,
     id |-> {}, charge |-> FALSE, relIso |-> 0, dB |-> 0]

\* LHEEventWeights(cfg): the two flags read from the configuration,
\* nEventsProcessed(0), bfAltWeights(nullptr) (bufSize -1), an empty
\* meanWeights.  setups counts the calls of SetupWeightMeans and
\* SetupWeightTree; meanIndex and bufIndex are the largest indices the last
\* analyze used on meanWeights and bfAltWeights (-1 for none); status tells
\* how the last analyze ended.
LHEEventWeights(computeMeanWeights, storeWeights) ==
    [computeMeanWeights |-> computeMeanWeights, storeWeights |-> storeWeights,
     nEventsProcessed |-> 0, meanSize |-> 0, bufSize |-> -1,
     bfNumAltWeights |-> 0,
     meanSetups |-> 0, treeSetups |-> 0,
     meanIndex |-> -1, bufIndex |-> -1, status |-> "constructed"]

(***************************************************************************)
(* GenParticle: construction                                               *)
(***************************************************************************)

\* The source object recorded for a call that copies from none.
NoSrc == "none"

\* The last call: the member function, the object it was called on, its
\* integer argument (0 when it takes none), the object copied from, and
\* whether it threw std::runtime_error.
Called(op, o, arg, src, threw) ==
    [op |-> op, obj |-> o, arg |-> arg, src |-> src, threw |-> threw]

\* GenParticle(): pdgId(0), firstMotherIndex(0), lastMotherIndex(0) on top
\* of a default-constructed Candidate.
DefaultGenParticle ==
    [pt |-> Candidate.pt, eta |-> Candidate.eta, phi |-> Candidate.phi,
     mass |-> Candidate.mass,
     pdgId |-> 0, firstMotherIndex |-> 0, lastMotherIndex |-> 0]

\* One object, default-constructed: GenParticle().
Init ==
    /\ gp = [o \in {"a"} |-> DefaultGenParticle]
    /\ call = Called("GenParticle", "a", 0, NoSrc, FALSE)
    /\ lep = DefaultLepton
    /\ lhe = LHEEventWeights(TRUE, FALSE)

\* Variant of the copy that leaves out lastMotherIndex.
CopyFields_SkipLast(p, src) ==
    [CandidateCopy(p, src) EXCEPT
        !.pdgId = src.pdgId,
        !.firstMotherIndex = src.firstMotherIndex]

\* The fields of a GenParticle copied from src into the record p: the
\* Candidate part, pdgId, firstMotherIndex, lastMotherIndex.
CopyFields(p, src) ==
    [CandidateCopy(p, src) EXCEPT
        !.pdgId = src.pdgId,
        !.firstMotherIndex = src.firstMotherIndex,
        !.lastMotherIndex = src.lastMotherIndex]

\* GenParticle(GenParticle const &src): a new object o copied from src.
GenParticleCopy(o, src) ==
    /\ o \notin DOMAIN gp
    /\ UNCHANGED <<lep, lhe>>
    /\ src \in DOMAIN gp
    /\ gp' = [x \in DOMAIN gp \cup {o} |->
                IF x = o THEN CopyFields(DefaultGenParticle, gp[src]) ELSE gp[x]]
    /\ call' = Called("GenParticleCopy", o, 0, src, FALSE)

\* operator=(GenParticle const &src) on the live object o (o = src is a
\* self-assignment).
OperatorAssign(o, src) ==
    /\ o \in DOMAIN gp
    /\ UNCHANGED <<lep, lhe>>
    /\ src \in DOMAIN gp
    /\ gp' = [gp EXCEPT ![o] = CopyFields(gp[o], gp[src])]
    /\ call' = Called("operator=", o, 0, src, FALSE)

(***************************************************************************)
(* GenParticle: Reset and the setters                                      *)
(***************************************************************************)

\* Variant of Reset that leaves lastMotherIndex as it is.
ResetFields_KeepLast(p) ==
    [CandidateReset(p) EXCEPT !.pdgId = 0, !.firstMotherIndex = 0]

\* The fields after Reset(): Candidate::Reset(), pdgId = 0, both mother
\* indices = 0.
ResetFields(p) ==
    [CandidateReset(p) EXCEPT
        !.pdgId = 0, !.firstMotherIndex = 0, !.lastMotherIndex = 0]

\* Reset() on the object o.
Reset(o) ==
    /\ o \in DOMAIN gp
    /\ UNCHANGED <<lep, lhe>>
    /\ gp' = [gp EXCEPT ![o] = ResetFields(gp[o])]
    /\ call' = Called("Reset", o, 0, NoSrc, FALSE)

\* The long value SetPdgId assigns to pdgId: the argument, or beyond the
\* threshold +-30000 plus the remainder of the argument by 1000.
FoldedPdgId(pdgId_) ==
    IF Abs(pdgId_) > PdgIdFoldLimit
    THEN (IF pdgId_ > 0 THEN PdgIdFoldLimit ELSE -PdgIdFoldLimit)
         + CRem(pdgId_, PdgIdFoldDivisor)
    ELSE pdgId_

\* Variant of SetPdgId on a field wide enough for a long: no conversion.
SetPdgId_NoConversion(o, pdgId_) ==
    /\ o \in DOMAIN gp
    /\ UNCHANGED <<lep, lhe>>
    /\ gp' = [gp EXCEPT ![o].pdgId = FoldedPdgId(pdgId_)]
    /\ call' = Called("SetPdgId", o, pdgId_, NoSrc, FALSE)

\* Variant of SetPdgId that throws when the value does not fit Char_t, as
\* the header comment describes.
SetPdgId_Throwing(o, pdgId_) ==
    /\ o \in DOMAIN gp
    /\ UNCHANGED <<lep, lhe>>
    /\ IF ToChar(FoldedPdgId(pdgId_)) # FoldedPdgId(pdgId_)
       THEN /\ gp' = gp
            /\ call' = Called("SetPdgId", o, pdgId_, NoSrc, TRUE)
       ELSE /\ gp' = [gp EXCEPT ![o].pdgId = FoldedPdgId(pdgId_)]
            /\ call' = Called("SetPdgId", o, pdgId_, NoSrc, FALSE)

\* SetPdgId(long pdgId_): no throw statement; the assignment converts the
\* long to the Char_t field.
SetPdgId(o, pdgId_) ==
    /\ o \in DOMAIN gp
    /\ UNCHANGED <<lep, lhe>>
    /\ gp' = [gp EXCEPT ![o].pdgId = ToChar(FoldedPdgId(pdgId_))]
    /\ call' = Called("SetPdgId", o, pdgId_, NoSrc, FALSE)

\* Variant of SetFirstMotherIndex that stores the index without the offset.
SetFirstMotherIndex_NoOffset(o, index) ==
    /\ o \in DOMAIN gp
    /\ UNCHANGED <<lep, lhe>>
    /\ IF index < -1
       THEN /\ gp' = gp
            /\ call' = Called("SetFirstMotherIndex", o, index, NoSrc, TRUE)
       ELSE /\ gp' = [gp EXCEPT ![o].firstMotherIndex = ToUChar(index)]
            /\ call' = Called("SetFirstMotherIndex", o, index, NoSrc, FALSE)

\* SetFirstMotherIndex(int index): throws before any assignment when
\* index < -1, else stores index + 1 converted to UChar_t.
SetFirstMotherIndex(o, index) ==
    /\ o \in DOMAIN gp
    /\ UNCHANGED <<lep, lhe>>
    /\ IF index < -1
       THEN /\ gp' = gp
            /\ call' = Called("SetFirstMotherIndex", o, index, NoSrc, TRUE)
       ELSE /\ gp' = [gp EXCEPT ![o].firstMotherIndex = ToUChar(index + 1)]
            /\ call' = Called("SetFirstMotherIndex", o, index, NoSrc, FALSE)

\* Variant of SetLastMotherIndex that assigns before it checks the index.
SetLastMotherIndex_AssignFirst(o, index) ==
    /\ o \in DOMAIN gp
    /\ UNCHANGED <<lep, lhe>>
    /\ gp' = [gp EXCEPT ![o].lastMotherIndex = ToUChar(index + 1)]
    /\ call' = Called("SetLastMotherIndex", o, index, NoSrc, index < -1)

\* SetLastMotherIndex(int index): the same on lastMotherIndex.
SetLastMotherIndex(o, index) ==
    /\ o \in DOMAIN gp
    /\ UNCHANGED <<lep, lhe>>
    /\ IF index < -1
       THEN /\ gp' = gp
            /\ call' = Called("SetLastMotherIndex", o, index, NoSrc, TRUE)
       ELSE /\ gp' = [gp EXCEPT ![o].lastMotherIndex = ToUChar(index + 1)]
            /\ call' = Called("SetLastMotherIndex", o, index, NoSrc, FALSE)

\* Candidate::SetPt, SetEta, SetPhi, SetMass: the value is stored verbatim.
SetPt(o, v) ==
    /\ o \in DOMAIN gp
    /\ UNCHANGED <<lep, lhe>>
    /\ gp' = [gp EXCEPT ![o].pt = v]
    /\ call' = Called("SetPt", o, v, NoSrc, FALSE)

SetEta(o, v) ==
    /\ o \in DOMAIN gp
    /\ UNCHANGED <<lep, lhe>>
    /\ gp' = [gp EXCEPT ![o].eta = v]
    /\ call' = Called("SetEta", o, v, NoSrc, FALSE)

SetPhi(o, v) ==
    /\ o \in DOMAIN gp
    /\ UNCHANGED <<lep, lhe>>
    /\ gp' = [gp EXCEPT ![o].phi = v]
    /\ call' = Called("SetPhi", o, v, NoSrc, FALSE)

SetMass(o, v) ==
    /\ o \in DOMAIN gp
    /\ UNCHANGED <<lep, lhe>>
    /\ gp' = [gp EXCEPT ![o].mass = v]
    /\ call' = Called("SetMass", o, v, NoSrc, FALSE)

(***************************************************************************)
(* GenParticle: the getters                                                *)
(***************************************************************************)

\* PdgId(): the Char_t field converted to long.
PdgId(p) == p.pdgId

\* FirstMotherIndex(), LastMotherIndex(): the stored byte minus 1.
FirstMotherIndex(p) == p.firstMotherIndex - 1

LastMotherIndex(p) == p.lastMotherIndex - 1

\* Everything the getters of a GenParticle return.
Observed(p) == <<PdgId(p), FirstMotherIndex(p), LastMotherIndex(p), P4(p)>>

(***************************************************************************)
(* Specifications                                                          *)
(***************************************************************************)

\* Spec: any sequence of copy constructions, assignments, resets and setter
\* calls on up to two objects, the second one made by copy construction.
Next ==
    \E o \in Objects :
        \/ \E src \in Objects : GenParticleCopy(o, src)
        \/ \E src \in Objects : OperatorAssign(o, src)
        \/ Reset(o)
        \/ \E id \in PdgIdArgs : SetPdgId(o, id)
        \/ \E index \in IndexArgs : SetFirstMotherIndex(o, index)
        \/ \E index \in IndexArgs : SetLastMotherIndex(o, index)
        \/ \E v \in FloatArgs : SetPt(o, v)
        \/ \E v \in FloatArgs : SetEta(o, v)
        \/ \E v \in FloatArgs : SetPhi(o, v)
        \/ \E v \in FloatArgs : SetMass(o, v)

Spec == Init /\ [][Next]_vars

\* SpecCall: one setter call on a freshly constructed object, with the
\* argument drawn from a whole range.
NextCall ==
    /\ call.op = "GenParticle"
    /\ \E o \in DOMAIN gp :
        \/ \E id \in WidePdgIdArgs : SetPdgId(o, id)
        \/ \E index \in WideIndexArgs : SetFirstMotherIndex(o, index)
        \/ \E index \in WideIndexArgs : SetLastMotherIndex(o, index)

SpecCall == Init /\ [][NextCall]_vars

(***************************************************************************)
(* Properties of SetPdgId and PdgId                                        *)
(***************************************************************************)

\* The object the last call was made on.
Callee == gp[call.obj]

MotherIndexSetters == {"SetFirstMotherIndex", "SetLastMotherIndex"}

\* C1: for every id with |id| > 30000, after SetPdgId(id) the getter
\* PdgId() returns sign(id) * 30000 + (id rem 1000), the remainder taking
\* the sign of id.
C1_FoldedValueReturned ==
    (call.op = "SetPdgId" /\ Abs(call.arg) > PdgIdFoldLimit) =>
        PdgId(Callee) =
            (IF call.arg > 0 THEN PdgIdFoldLimit ELSE -PdgIdFoldLimit)
            + CRem(call.arg, PdgIdFoldDivisor)

\* C2: for every id with |id| <= 30000, SetPdgId(id) followed by PdgId()
\* returns exactly id.
C2_InRangeReturnedUnchanged ==
    (call.op = "SetPdgId" /\ Abs(call.arg) <= PdgIdFoldLimit) =>
        PdgId(Callee) = call.arg

C7_ThrowsWhenNotStorable ==
    (call.op = "SetPdgId" /\ ToChar(call.arg) # call.arg) => call.threw

(***************************************************************************)
(* Properties of the mother indices                                        *)
(***************************************************************************)

\* The indices the record is specified to hold: -1 (no mother) to 253.
ValidIndices == -1 .. 253

\* C3: for every index in -1 .. 253, SetFirstMotherIndex(index) followed by
\* FirstMotherIndex() returns index, and likewise for the last mother; the
\* stored byte is index + 1, and the byte 0 decodes to -1.
C3_MotherIndexRoundTrip ==
    call.arg \in ValidIndices =>
        /\ call.op = "SetFirstMotherIndex" =>
            /\ ~call.threw
            /\ Callee.firstMotherIndex = call.arg + 1
            /\ FirstMotherIndex(Callee) = call.arg
        /\ call.op = "SetLastMotherIndex" =>
            /\ ~call.threw
            /\ Callee.lastMotherIndex = call.arg + 1
            /\ LastMotherIndex(Callee) = call.arg
        /\ (call.op \in MotherIndexSetters /\ call.arg = -1) =>
            /\ Callee.firstMotherIndex = 0
            /\ Callee.lastMotherIndex = 0

\* The largest specified index has been set and is read back.
C3_Witness ==
    /\ call.op = "SetFirstMotherIndex"
    /\ call.arg = 253
    /\ FirstMotherIndex(Callee) = 253

\* C5: SetFirstMotherIndex and SetLastMotherIndex reject every index whose
\* stored value index + 1 exceeds 255, with the error of index < -1.
C5_OverflowRejected ==
    (call.op \in MotherIndexSetters /\ call.arg + 1 > ByteRange - 1) =>
        call.threw

\* C4: for every index < -1, SetFirstMotherIndex(index) and
\* SetLastMotherIndex(index) fail with an error at the call and leave the
\* fields of every object as they were before the call.
C4_IllegalIndexThrowsNoEffect ==
    [][(call'.op \in MotherIndexSetters /\ call'.arg < -1) =>
          (call'.threw /\ gp' = gp)]_vars

\* A setter has thrown on an object that holds values other than the
\* defaults, and the object still holds them.
C4_Witness ==
    /\ call.op = "SetLastMotherIndex"
    /\ call.arg < -1
    /\ call.threw
    /\ PdgId(Callee) # 0
    /\ FirstMotherIndex(Callee) # -1
    /\ LastMotherIndex(Callee) # -1
    /\ P4(Callee) # P4(DefaultGenParticle)

(***************************************************************************)
(* Properties of Reset, copy and assignment                                *)
(***************************************************************************)

\* C8: after any sequence of calls, Reset() yields PdgId() = 0, both mother
\* indices -1 and a zero four-momentum; the state is that of a
\* default-constructed object, and a second Reset() changes nothing.
C8_ResetYieldsDefault ==
    call.op = "Reset" =>
        /\ PdgId(Callee) = 0
        /\ FirstMotherIndex(Callee) = -1
        /\ LastMotherIndex(Callee) = -1
        /\ P4(Callee) = <<0, 0, 0, 0>>
        /\ Callee = DefaultGenParticle
        /\ ResetFields(Callee) = Callee

\* An object has been reset while its copy keeps the values set before.
C8_Witness ==
    /\ call.op = "Reset"
    /\ \E o \in DOMAIN gp :
        /\ o # call.obj
        /\ PdgId(gp[o]) # 0
        /\ LastMotherIndex(gp[o]) # -1
        /\ P4(gp[o]) # <<0, 0, 0, 0>>

\* C9: an object made by copy construction or assignment returns the PdgId,
\* mother indices and four-momentum of its source, and no call on one
\* object changes what another object returns.
C9_CopyIndependent ==
    [][/\ call'.op \in {"GenParticleCopy", "operator="} =>
            Observed(gp'[call'.obj]) = Observed(gp[call'.src])
       /\ \A o \in DOMAIN gp : o # call'.obj => gp'[o] = gp[o]]_vars

\* The copy "b" has been changed by a setter and its source "a" returns
\* other values.
C9_Witness ==
    /\ DOMAIN gp = {"a", "b"}
    /\ call.op = "SetLastMotherIndex"
    /\ call.obj = "b"
    /\ ~call.threw
    /\ LastMotherIndex(gp["b"]) # LastMotherIndex(gp["a"])
    /\ PdgId(gp["a"]) # 0

(***************************************************************************)
(* Frame of the setters                                                    *)
(***************************************************************************)

\* C10: each setter changes only what its own getter returns, and after
\* SetPdgId(-211), SetFirstMotherIndex(-1), SetLastMotherIndex(-1) and
\* SetPt(12.5) the four getters return the values set.
C10_SettersOnlyOwnField ==
    [][LET p == gp[call'.obj]
           q == gp'[call'.obj]
       IN  /\ call'.op = "SetPdgId" =>
                /\ FirstMotherIndex(q) = FirstMotherIndex(p)
                /\ LastMotherIndex(q) = LastMotherIndex(p)
                /\ P4(q) = P4(p)
                /\ call'.arg = -211 => PdgId(q) = -211
           /\ call'.op = "SetFirstMotherIndex" =>
                /\ PdgId(q) = PdgId(p)
                /\ LastMotherIndex(q) = LastMotherIndex(p)
                /\ P4(q) = P4(p)
                /\ call'.arg = -1 => FirstMotherIndex(q) = -1
           /\ call'.op = "SetLastMotherIndex" =>
                /\ PdgId(q) = PdgId(p)
                /\ FirstMotherIndex(q) = FirstMotherIndex(p)
                /\ P4(q) = P4(p)
                /\ call'.arg = -1 => LastMotherIndex(q) = -1
           /\ call'.op = "SetPt" =>
                /\ PdgId(q) = PdgId(p)
                /\ FirstMotherIndex(q) = FirstMotherIndex(p)
                /\ LastMotherIndex(q) = LastMotherIndex(p)
                /\ q.pt = call'.arg]_vars

(***************************************************************************)
(* Lepton: a CandidateWithID with a charge flag, relIso and dB             *)
(***************************************************************************)

\* SpecLepton passes every charge in -MaxChargeArg .. MaxChargeArg.
MaxChargeArg == 5

ChargeArgs == (-MaxChargeArg) .. MaxChargeArg

\* Arguments of SetDB: a negative and a positive impact parameter.
DBArgs == {-3, 3}

\* The bits of the ID field that are set in SpecLepton.
IdBits == {0, 1}

\* The one Lepton object.
TheLepton == "l"

\* Lepton::Reset(): the base is reset (four-momentum zero, ID bits
\* cleared), the charge flag is false, relIso and dB are zero.
LeptonResetFields(l) ==
    [CandidateReset(l) EXCEPT
        !.id = {}, !.charge = FALSE, !.relIso = 0, !.dB = 0]

LeptonReset ==
    /\ lep' = LeptonResetFields(lep)
    /\ call' = Called("Lepton::Reset", TheLepton, 0, NoSrc, FALSE)
    /\ UNCHANGED <<gp, lhe>>

\* Variant of SetCharge with the flag inverted: true for positive charge.
SetCharge_Inverted(charge) ==
    /\ IF charge = 0
       THEN /\ lep' = lep
            /\ call' = Called("SetCharge", TheLepton, charge, NoSrc, TRUE)
       ELSE /\ lep' = [lep EXCEPT !.charge = (charge > 0)]
            /\ call' = Called("SetCharge", TheLepton, charge, NoSrc, FALSE)
    /\ UNCHANGED <<gp, lhe>>

\* Variant of SetCharge that takes zero for a positive charge.
SetCharge_ZeroAsPositive(charge) ==
    /\ lep' = [lep EXCEPT !.charge = (charge < 0)]
    /\ call' = Called("SetCharge", TheLepton, charge, NoSrc, FALSE)
    /\ UNCHANGED <<gp, lhe>>

\* SetCharge(int charge): only the sign of the argument is looked at; zero
\* throws, otherwise the flag is true for a negative charge.
SetCharge(charge) ==
    /\ IF charge = 0
       THEN /\ lep' = lep
            /\ call' = Called("SetCharge", TheLepton, charge, NoSrc, TRUE)
       ELSE /\ lep' = [lep EXCEPT !.charge = (charge < 0)]
            /\ call' = Called("SetCharge", TheLepton, charge, NoSrc, FALSE)
    /\ UNCHANGED <<gp, lhe>>

\* SetRelIso(float relIso): stored verbatim.
SetRelIso(v) ==
    /\ lep' = [lep EXCEPT !.relIso = v]
    /\ call' = Called("SetRelIso", TheLepton, v, NoSrc, FALSE)
    /\ UNCHANGED <<gp, lhe>>

\* SetDB(float dB): the sign is discarded, DB() returns the magnitude.
SetDB(v) ==
    /\ lep' = [lep EXCEPT !.dB = Abs(v)]
    /\ call' = Called("SetDB", TheLepton, v, NoSrc, FALSE)
    /\ UNCHANGED <<gp, lhe>>

\* The ID bit mutator of CandidateWithID: the bit is set.
SetBit(bit) ==
    /\ lep' = [lep EXCEPT !.id = @ \cup {bit}]
    /\ call' = Called("SetBit", TheLepton, bit, NoSrc, FALSE)
    /\ UNCHANGED <<gp, lhe>>

\* Candidate::SetPt, SetEta, SetPhi, SetMass on the lepton.
LeptonSetPt(v) ==
    /\ lep' = [lep EXCEPT !.pt = v]
    /\ call' = Called("SetPt", TheLepton, v, NoSrc, FALSE)
    /\ UNCHANGED <<gp, lhe>>

LeptonSetEta(v) ==
    /\ lep' = [lep EXCEPT !.eta = v]
    /\ call' = Called("SetEta", TheLepton, v, NoSrc, FALSE)
    /\ UNCHANGED <<gp, lhe>>

LeptonSetPhi(v) ==
    /\ lep' = [lep EXCEPT !.phi = v]
    /\ call' = Called("SetPhi", TheLepton, v, NoSrc, FALSE)
    /\ UNCHANGED <<gp, lhe>>

LeptonSetMass(v) ==
    /\ lep' = [lep EXCEPT !.mass = v]
    /\ call' = Called("SetMass", TheLepton, v, NoSrc, FALSE)
    /\ UNCHANGED <<gp, lhe>>

\* Charge(): -1 when the flag is true, +1 otherwise.
Charge(l) == IF l.charge THEN -1 ELSE 1

\* RelIso() and DB(): the stored values.
RelIso(l) == l.relIso

DB(l) == l.dB

\* SpecLepton: any sequence of Reset and setter calls on one Lepton.
NextLepton ==
    \/ LeptonReset
    \/ \E charge \in ChargeArgs : SetCharge(charge)
    \/ \E v \in FloatArgs : SetRelIso(v)
    \/ \E v \in DBArgs : SetDB(v)
    \/ \E bit \in IdBits : SetBit(bit)
    \/ \E v \in FloatArgs : LeptonSetPt(v)
    \/ \E v \in FloatArgs : LeptonSetEta(v)
    \/ \E v \in FloatArgs : LeptonSetPhi(v)
    \/ \E v \in FloatArgs : LeptonSetMass(v)

SpecLepton == Init /\ [][NextLepton]_vars

\* C11: for every non-zero c, SetCharge(c) followed by Charge() returns
\* the sign of c whatever its magnitude, and in every reachable state of a
\* Lepton, also after construction and Reset(), Charge() is +1 or -1.
C11_ChargeIsSign ==
    /\ Charge(lep) \in {-1, 1}
    /\ (call.op = "SetCharge" /\ call.arg # 0) =>
        /\ ~call.threw
        /\ Charge(lep) = (IF call.arg > 0 THEN 1 ELSE -1)

\* SetCharge(-3) has been called and Charge() returns -1.
C11_Witness ==
    /\ call.op = "SetCharge"
    /\ call.arg = -3
    /\ Charge(lep) = -1

\* C12: SetCharge(0) fails with an error at the call and leaves the charge,
\* relIso, dB, ID bits and four-momentum of the Lepton as they were.
C12_ZeroChargeThrowsNoEffect ==
    [][(call'.op = "SetCharge" /\ call'.arg = 0) =>
          (call'.threw /\ lep' = lep)]_vars

\* SetCharge(0) has thrown on a Lepton none of whose values is the default.
C12_Witness ==
    /\ call.op = "SetCharge"
    /\ call.arg = 0
    /\ call.threw
    /\ Charge(lep) = -1
    /\ RelIso(lep) # 0
    /\ DB(lep) # 0
    /\ lep.id # {}
    /\ P4(lep) # P4(DefaultLepton)

(***************************************************************************)
(* Ranges of the one-byte fields over sequences of calls                   *)
(***************************************************************************)

\* PDG IDs passed in SpecPdg: around the ends of the byte and beyond the
\* fold threshold.
SeqPdgIdArgs == {-30005, -211, -129, -128, 127, 128, 211, 30005}

\* Mother indices passed in SpecIdx: illegal ones, the sentinel, index 0,
\* the ends of the byte and a large index.
SeqIndexArgs == IndexArgs \cup {253, 254, 255, 256, MaxIndexArg}

\* SpecPdg: any sequence of SetPdgId, Reset, copy construction and
\* assignment on up to two objects.
NextPdg ==
    \E o \in Objects :
        \/ \E src \in Objects : GenParticleCopy(o, src)
        \/ \E src \in Objects : OperatorAssign(o, src)
        \/ Reset(o)
        \/ \E id \in SeqPdgIdArgs : SetPdgId(o, id)

SpecPdg == Init /\ [][NextPdg]_vars

\* SpecIdx: any sequence of mother-index setter calls, Reset, copy
\* construction and assignment on up to two objects.
NextIdx ==
    \E o \in Objects :
        \/ \E src \in Objects : GenParticleCopy(o, src)
        \/ \E src \in Objects : OperatorAssign(o, src)
        \/ Reset(o)
        \/ \E index \in SeqIndexArgs : SetFirstMotherIndex(o, index)
        \/ \E index \in SeqIndexArgs : SetLastMotherIndex(o, index)

SpecIdx == Init /\ [][NextIdx]_vars

C14_MotherIndexInRange ==
    \A o \in DOMAIN gp :
        /\ FirstMotherIndex(gp[o]) \in -1 .. (ByteRange - 2)
        /\ LastMotherIndex(gp[o]) \in -1 .. (ByteRange - 2)

\* A setter has failed on an object that holds the largest first index and
\* the wrapped value of a large last index.
C14_Witness ==
    /\ call.op = "SetFirstMotherIndex"
    /\ call.threw
    /\ FirstMotherIndex(Callee) = 254
    /\ LastMotherIndex(Callee) = ToUChar(MaxIndexArg + 1) - 1

(***************************************************************************)
(* LHEEventWeights: the weight tables over a sequence of events            *)
(***************************************************************************)

\* SpecLHE passes events with 0 .. MaxAltWeights alternative weights.
MaxAltWeights == 3

\* SpecLHE processes at most MaxEvents events.
MaxEvents == 3

\* The one LHEEventWeights module.
TheModule == "w"

\* SetupWeightMeans(altWeights) on a table of the given size: one entry for
\* the nominal weight and one per alternative weight are appended.
SetupWeightMeans(size, nAltWeights) == size + 1 + nAltWeights

\* SetupWeightTree(nAltWeights): bfAltWeights = new Float_t[nAltWeights].
SetupWeightTree(nAltWeights) == nAltWeights

\* analyze(event, setup) for an event with n alternative weights.
\* Setup runs while nEventsProcessed is 0.  The update of the means reads
\* meanWeights.at(i + 1) for i < n, which throws std::out_of_range at the
\* first index that is not below the size and leaves analyze before the
\* counter is incremented.  The fill writes bfAltWeights[i] for i < n with
\* no check: a write past the buffer is undefined behaviour, after which
\* the run either goes on or ends.
analyze(n) ==
    /\ lhe.status \in {"constructed", "ok", "overflow"}
    /\ lhe.nEventsProcessed < MaxEvents
    /\ UNCHANGED <<gp, lep>>
    /\ LET first == lhe.nEventsProcessed = 0
           setupMeans == first /\ lhe.computeMeanWeights
           setupTree == first /\ lhe.storeWeights
           meanSize == IF setupMeans
                       THEN SetupWeightMeans(lhe.meanSize, n)
                       ELSE lhe.meanSize
           bufSize == IF setupTree THEN SetupWeightTree(n) ELSE lhe.bufSize
           base == [lhe EXCEPT
                      !.meanSize = meanSize,
                      !.bufSize = bufSize,
                      !.bfNumAltWeights = IF setupTree THEN n ELSE @,
                      !.meanSetups = IF setupMeans THEN @ + 1 ELSE @,
                      !.treeSetups = IF setupTree THEN @ + 1 ELSE @]
           meanThrows == lhe.computeMeanWeights /\ n + 1 > meanSize
           meanIndex == IF lhe.computeMeanWeights THEN n ELSE -1
           bufOverflow == lhe.storeWeights /\ n > 0 /\ n > bufSize
           bufIndex == IF lhe.storeWeights /\ n > 0 THEN n - 1 ELSE -1
           filled == [base EXCEPT
                        !.bfNumAltWeights =
                            IF lhe.storeWeights THEN n ELSE @,
                        !.meanIndex = meanIndex,
                        !.bufIndex = bufIndex]
       IN  IF meanThrows
           THEN /\ lhe' = [base EXCEPT
                             !.meanIndex = meanSize,
                             !.bufIndex = -1,
                             !.status = "out_of_range"]
                /\ call' = Called("analyze", TheModule, n, NoSrc, TRUE)
           ELSE IF bufOverflow
           THEN \/ /\ lhe' = [filled EXCEPT
                                !.status = "overflow",
                                !.nEventsProcessed = @ + 1]
                   /\ call' = Called("analyze", TheModule, n, NoSrc, FALSE)
                \/ /\ lhe' = [filled EXCEPT !.status = "crashed"]
                   /\ call' = Called("analyze", TheModule, n, NoSrc, FALSE)
           ELSE /\ lhe' = [filled EXCEPT
                             !.status = "ok",
                             !.nEventsProcessed = @ + 1]
                /\ call' = Called("analyze", TheModule, n, NoSrc, FALSE)

\* The module constructed with any configuration of its two flags.
InitLHE ==
    /\ gp = [o \in {"a"} |-> DefaultGenParticle]
    /\ call = Called("LHEEventWeights", TheModule, 0, NoSrc, FALSE)
    /\ lep = DefaultLepton
    /\ \E computeMeanWeights \in BOOLEAN, storeWeights \in BOOLEAN :
        lhe = LHEEventWeights(computeMeanWeights, storeWeights)

\* SpecLHE: a sequence of events, each with any number of weights.
NextLHE == \E n \in 0 .. MaxAltWeights : analyze(n)

SpecLHE == InitLHE /\ [][NextLHE]_vars

\* C15: setup runs exactly once, on the analyze call made while
\* nEventsProcessed is 0, and sizes the mean table and the buffer from that
\* event; in every later analyze call every index used on meanWeights and
\* on bfAltWeights is within that size, also when a later event carries
\* more alternative weights than the first.
C15_SetupOnceIndicesInSize ==
    /\ lhe.meanSetups <= 1
    /\ lhe.treeSetups <= 1
    /\ lhe.nEventsProcessed > 0 =>
        /\ lhe.meanSetups = (IF lhe.computeMeanWeights THEN 1 ELSE 0)
        /\ lhe.treeSetups = (IF lhe.storeWeights THEN 1 ELSE 0)
    /\ lhe.meanIndex >= 0 => lhe.meanIndex < lhe.meanSize
    /\ lhe.bufIndex >= 0 => lhe.bufIndex < lhe.bufSize

====
